---- MODULE Spec2Model ----
(***************************************************************************)
(* A model of Ascle/medical_chatbot.py: the prompt assembler               *)
(* generate_prompt_with_history, the sampling decoder sample_decode (a     *)
(* Python generator, resumed by its consumer) and answer_generation with   *)
(* the module-level call that post-processes its result.                   *)
(*                                                                         *)
(* Text is a sequence of characters.  The two speaker markers are          *)
(* abbreviated: "[|Human|]" is written "[H]" and "[|AI|]" is written       *)
(* "[A]"; the long first sentence block of the preamble is the single      *)
(* character "p".  Logits are integers in units of ln 2, so that softmax   *)
(* weights are exact powers of two, and probabilities are kept as integer  *)
(* weights over their total.                                               *)
(***************************************************************************)
EXTENDS Integers, Sequences, FiniteSets, TLC

VARIABLES entry, args, pc, assembled, gen, logits, yielded, calls, ans

vars == <<entry, args, pc, assembled, gen, logits, yielded, calls, ans>>

(***************************************************************************)
(* Bounds of the model.                                                    *)
(***************************************************************************)
\* longest history handed to generate_prompt_with_history
MaxHistory == 3
\* largest max_length handed to sample_decode when it is called directly
MaxSteps == 3
\* the assembler's max_length ranges up to MaxBudget
MaxBudget == 34
\* largest max_length of a direct sample_decode call on the dense stub
MaxDense == 1

(***************************************************************************)
(* Strings.                                                                *)
(***************************************************************************)
NL == "\n"

HumanMarker == <<"[", "H", "]">>
AIMarker == <<"[", "A", "]">>

\* s[i .. i+Len(t)-1] = t
MatchAt(s, t, i) ==
    /\ i + Len(t) - 1 <= Len(s)
    /\ \A j \in 1..Len(t) : s[i + j - 1] = t[j]

\* Python's `t in s` for strings
Contains(s, t) == \E i \in 1..(Len(s) + 1) : MatchAt(s, t, i)

IsSuffix(t, s) == Len(t) <= Len(s) /\ MatchAt(s, t, Len(s) - Len(t) + 1)

RECURSIVE ReplaceFrom(_, _, _)
ReplaceFrom(s, old, i) ==
    IF i > Len(s) THEN <<>>
    ELSE IF MatchAt(s, old, i) THEN ReplaceFrom(s, old, i + Len(old))
    ELSE <<s[i]>> \o ReplaceFrom(s, old, i + 1)

\* Python's s.replace(old, "") for a non-empty old: every non-overlapping
\* occurrence, scanning from the left, is removed
Replace(s, old) == ReplaceFrom(s, old, 1)

(***************************************************************************)
(* The tokenizer.  Vocab[id + 1] is the piece of token id; id 0 is the     *)
(* begin-of-sequence token that encoding puts in front of every text.      *)
(* Every character of the alphabet is a piece of its own, a few pieces     *)
(* span several characters, and no piece but the newline itself holds a    *)
(* newline.                                                                *)
(***************************************************************************)
Vocab == <<
    <<"<s>">>, <<NL>>, <<"[">>, <<"H", "]">>, <<"h", "i">>, <<"!">>,
    <<"H">>, <<"A">>, <<"]">>, <<"h">>, <<"i">>, <<"p">>,
    <<"a">>, <<"b">>, <<"a", "b">>, <<"A", "]">>, <<"c">>, <<"d">>,
    <<"e">>, <<"f">>, <<"g">>, <<"j">>, <<"k">>, <<"l">>,
    <<"m">>, <<"n">> >>

\* vocabulary size
V == Len(Vocab)

TokenIds == 0..(V - 1)

BOS == 0

Piece(id) == Vocab[id + 1]

RECURSIVE decode(_)
\* tokenizer.decode(ids): the pieces, concatenated
decode(ids) ==
    IF ids = <<>> THEN <<>> ELSE Piece(Head(ids)) \o decode(Tail(ids))

\* the tokens whose piece is longer than one character
MultiIds == {id \in TokenIds : Len(Piece(id)) > 1}

\* the token of each single character
CharId == [c \in {Piece(id)[1] : id \in TokenIds \ (MultiIds \cup {BOS})} |->
              CHOOSE id \in TokenIds : Piece(id) = <<c>>]

\* the token of the longest piece that matches s at position i
LongestId(s, i) ==
    LET m == {id \in MultiIds : MatchAt(s, Piece(id), i)}
    IN IF m = {} THEN CharId[s[i]]
       ELSE CHOOSE id \in m : \A o \in m : Len(Piece(o)) <= Len(Piece(id))

RECURSIVE EncodeFrom(_, _)
EncodeFrom(s, i) ==
    IF i > Len(s) THEN <<>>
    ELSE LET id == LongestId(s, i)
         IN <<id>> \o EncodeFrom(s, i + Len(Piece(id)))

\* tokenizer(s)["input_ids"]: BOS, then longest-match pieces left to right
tokenizer(s) == <<BOS>> \o EncodeFrom(s, 1)

\* tokenizer(s, return_tensors="pt")["input_ids"].size(-1)
token_count(s) == Len(tokenizer(s))

(***************************************************************************)
(* generate_prompt_with_history.                                           *)
(***************************************************************************)
\* the preamble: "p" stands for its sentences, the rest is its closing
\* "\n[|Human|]Hello!\n[|AI|]Hi!"
prompt ==
    <<"p", NL>> \o HumanMarker \o <<"h", "i", "!", NL>> \o AIMarker
        \o <<"h", "i", "!">>

\* "\n[|Human|]{}\n[|AI|]{}".format(x[0], x[1])
FormatTurn(x) == <<NL>> \o HumanMarker \o x[1] \o <<NL>> \o AIMarker \o x[2]

\* "\n[|Human|]{}\n[|AI|]".format(text)
FormatText(text) == <<NL>> \o HumanMarker \o text \o <<NL>> \o AIMarker

\* the list the loop walks: the formatted turns, then the new utterance
Formatted(text, history) ==
    [i \in 1..Len(history) |-> FormatTurn(history[i])] \o <<FormatText(text)>>

Reverse(s) == [i \in 1..Len(s) |-> s[Len(s) + 1 - i]]

\* mutant: the budget test measures the text before the candidate is added
FitsBeforeAdding(history_text, x, max_length) ==
    token_count(prompt \o history_text) <= max_length

\* mutant: a text of exactly max_length tokens is turned away
FitsStrict(history_text, x, max_length) ==
    token_count(prompt \o history_text \o x) < max_length

\* mutant: the comparison is turned round
FitsReversed(history_text, x, max_length) ==
    token_count(prompt \o history_text \o x) >= max_length

\* the loop's test: the candidate x is measured AFTER history_text
Fits(history_text, x, max_length) ==
    token_count(prompt \o history_text \o x) <= max_length

RECURSIVE WalkSkipping(_, _, _, _)
\* mutant: a turn that does not fit is skipped and the walk goes on
WalkSkipping(rev, history_text, flag, max_length) ==
    IF rev = <<>> THEN [history_text |-> history_text, flag |-> flag]
    ELSE IF Fits(history_text, Head(rev), max_length)
         THEN WalkSkipping(Tail(rev), Head(rev) \o history_text, TRUE,
                           max_length)
         ELSE WalkSkipping(Tail(rev), history_text, flag, max_length)

RECURSIVE Walk(_, _, _, _)
\* for x in history[::-1]: a fitting x is put BEFORE history_text, the first
\* x that does not fit ends the loop
Walk(rev, history_text, flag, max_length) ==
    IF rev = <<>> THEN [history_text |-> history_text, flag |-> flag]
    ELSE IF Fits(history_text, Head(rev), max_length)
         THEN Walk(Tail(rev), Head(rev) \o history_text, TRUE, max_length)
         ELSE [history_text |-> history_text, flag |-> flag]

\* the value Python's None is modelled by
None == [none |-> TRUE]

\* the function's result: None, or the prompt text with its tokenization
generate_prompt_with_history(text, history, max_length) ==
    LET w == Walk(Reverse(Formatted(text, history)), <<>>, FALSE, max_length)
    IN IF w.flag
       THEN [none |-> FALSE,
             prompt |-> prompt \o w.history_text,
             input_ids |-> tokenizer(prompt \o w.history_text)]
       ELSE None

(***************************************************************************)
(* The sampler: lines 89-107 of sample_decode.  A logit is finite, v in    *)
(* units of ln 2, or minus infinity.  Temperatures are integers and the    *)
(* finite logits the models return are even, so that logits / temperature  *)
(* is exact for every temperature used.  top_p is a fraction num / den.    *)
(***************************************************************************)
Fin(v) == [fin |-> TRUE, v |-> v]
NegInf == [fin |-> FALSE, v |-> 0]

RECURSIVE Pow2(_)
Pow2(n) == IF n <= 0 THEN 1 ELSE 2 * Pow2(n - 1)

RECURSIVE SumSeq(_)
SumSeq(s) == IF s = <<>> THEN 0 ELSE Head(s) + SumSeq(Tail(s))

SetMax(S) == CHOOSE m \in S : \A o \in S : o <= m
SetMin(S) == CHOOSE m \in S : \A o \in S : m <= o

\* logits /= temperature, for a finite logit and temperature # 0
Scale(v, temperature) ==
    IF temperature > 0 THEN v \div temperature
    ELSE 0 - (v \div (0 - temperature))

\* the softmax is NaN in every entry: a division by zero turns the logits
\* into infinities and NaNs, a negative temperature turns a minus infinity
\* into plus infinity, and a row of minus infinities has no finite maximum
SoftmaxIsNaN(lg, temperature) ==
    \/ temperature = 0
    \/ temperature < 0 /\ \E i \in 1..Len(lg) : ~lg[i].fin
    \/ \A i \in 1..Len(lg) : ~lg[i].fin

\* torch.softmax(logits / temperature), as integer weights: the
\* probability of entry i is Weights[i] / SumSeq(Weights)
Weights(lg, temperature) ==
    LET fin == {i \in 1..Len(lg) : lg[i].fin}
        lo == SetMin({Scale(lg[i].v, temperature) : i \in fin})
    IN [i \in 1..Len(lg) |->
            IF lg[i].fin THEN Pow2(Scale(lg[i].v, temperature) - lo) ELSE 0]

RECURSIVE SortValues(_, _)
SortValues(w, vals) ==
    IF vals = {} THEN <<>>
    ELSE LET m == SetMax(vals)
             n == Cardinality({i \in 1..Len(w) : w[i] = m})
         IN [i \in 1..n |-> m] \o SortValues(w, vals \ {m})

\* probs_sort of torch.sort(probs, descending=True): the values, largest
\* first.  Which of several equal entries comes first is left open by
\* torch.sort; Selectable below allows every order.
SortDescending(w) == SortValues(w, {w[i] : i \in 1..Len(w)})

RECURSIVE CumSumFrom(_, _)
CumSumFrom(ps, acc) ==
    IF ps = <<>> THEN <<>>
    ELSE <<acc + Head(ps)>> \o CumSumFrom(Tail(ps), acc + Head(ps))

\* probs_sum = torch.cumsum(probs_sort)
CumSum(ps) == CumSumFrom(ps, 0)

\* mask = probs_sum - probs_sort > top_p; probs_sort[mask] = 0.0
TopPMask(ps, top_p) ==
    LET cum == CumSum(ps)
        total == SumSeq(ps)
    IN [j \in 1..Len(ps) |->
            IF (cum[j] - ps[j]) * top_p.den > top_p.num * total
            THEN 0 ELSE ps[j]]

\* torch.topk(probs_sort, top_k) raises when top_k is not in 0 .. size
TopKRaises(ps, top_k) == top_k < 0 \/ top_k > Len(ps)

\* torch.min over the empty result of torch.topk(probs_sort, 0) raises
MinRaises(top_k) == top_k = 0

\* torch.where(probs_sort < min_top_probs_sort, 0, probs_sort): ps is
\* still sorted, so the least of its top_k values is ps[top_k]
TopKFilter(ps, top_k) ==
    [j \in 1..Len(ps) |-> IF ps[j] < ps[top_k] THEN 0 ELSE ps[j]]

\* One pass of lines 89-107 over the logits of the last position.
\*   error:  "none", or the call that raises
\*   tokens: the token ids torch.multinomial and torch.gather can give
\*   kept, total: the probability mass left by the filters is kept / total
Sampler(lg, temperature, top_p, top_k) ==
    IF SoftmaxIsNaN(lg, temperature)
    THEN [error |-> IF TopKRaises(lg, top_k) THEN "topk"
                    ELSE IF MinRaises(top_k) THEN "min"
                    ELSE "multinomial",
          tokens |-> {}, kept |-> 0, total |-> 0]
    ELSE
    LET w == Weights(lg, temperature)
        probs_sort == SortDescending(w)
        after_p == TopPMask(probs_sort, top_p)
    IN IF TopKRaises(probs_sort, top_k)
       THEN [error |-> "topk", tokens |-> {}, kept |-> 0,
             total |-> SumSeq(w)]
       ELSE IF MinRaises(top_k)
       THEN [error |-> "min", tokens |-> {}, kept |-> 0, total |-> SumSeq(w)]
       ELSE
       LET after_k == TopKFilter(after_p, top_k)
           kept == SumSeq(after_k)
           Selectable ==
               {i \in 1..Len(w) :
                    /\ w[i] > 0
                    /\ \E j \in 1..Len(after_k) :
                          after_k[j] > 0 /\ probs_sort[j] = w[i]}
       IN IF kept = 0
          \* 0 / 0: torch.multinomial rejects the NaN row
          THEN [error |-> "multinomial", tokens |-> {}, kept |-> 0,
                total |-> SumSeq(w)]
          ELSE [error |-> "none", tokens |-> {i - 1 : i \in Selectable},
                kept |-> kept, total |-> SumSeq(w)]

(***************************************************************************)
(* The Model collaborator.  A model is one of two stubs, known by the      *)
(* logits rows it may return for the last position.  The cache it returns  *)
(* (past_key_values) is the sequence of token ids it has been fed.         *)
(***************************************************************************)
TokenOf(piece) == CHOOSE id \in TokenIds : Piece(id) = piece

\* a row that forces token t
OneHot(t) == [i \in 1..V |-> IF i = t + 1 THEN Fin(0) ELSE NegInf]

\* a row that allows t, four times as likely as u, and nothing else
TwoHot(t, u) ==
    [i \in 1..V |-> IF i = t + 1 THEN Fin(2)
                    ELSE IF i = u + 1 THEN Fin(0) ELSE NegInf]

\* a row with every logit finite
Dense(t, u) ==
    [i \in 1..V |-> IF i = t + 1 THEN Fin(4)
                    ELSE IF i = u + 1 THEN Fin(2) ELSE Fin(0)]

StubTokens ==
    {TokenOf(<<"h", "i">>), TokenOf(<<NL>>), TokenOf(<<"[">>),
     TokenOf(<<"H", "]">>)}

ModelOutputs(model) ==
    IF model = "stub"
    THEN {OneHot(t) : t \in StubTokens}
             \cup {TwoHot(TokenOf(<<"!">>), TokenOf(<<"A", "]">>))}
    ELSE {Dense(TokenOf(<<"h", "i">>), TokenOf(<<NL>>))}

NoCache == [none |-> TRUE, seen |-> <<>>]

\* outputs.past_key_values after the model was fed ids on top of past
ModelCache(ids, past) == [none |-> FALSE, seen |-> past.seen \o ids]

(***************************************************************************)
(* sample_decode: the generator's frame, and what one resumption does.     *)
(***************************************************************************)
Last(s) == s[Len(s)]

\* the frame right after the call: nothing has run yet
NewGenerator(input_ids, model, stops, max_length, temperature, top_p, top_k) ==
    [state |-> "created", input_ids |-> input_ids, model |-> model,
     stop_words |-> stops, max_length |-> max_length,
     temperature |-> temperature, top_p |-> top_p, top_k |-> top_k,
     generated_tokens |-> <<>>, past_key_values |-> NoCache, i |-> 0,
     text |-> <<>>]

NoGenerator ==
    [state |-> "absent", input_ids |-> <<>>, model |-> "stub",
     stop_words |-> {}, max_length |-> 0, temperature |-> 1,
     top_p |-> [num |-> 1, den |-> 1], top_k |-> 1,
     generated_tokens |-> <<>>, past_key_values |-> NoCache, i |-> 0,
     text |-> <<>>]

\* mutant: the stop words are never looked at
StopIgnored(g) == FALSE

\* line 115, reached when the generator is resumed after a yield
StopHit(g) ==
    g.state = "suspended" /\ \E x \in g.stop_words : Contains(g.text, x)

\* the loop index of the iteration a resumption enters
NextIndex(g) == IF g.state = "created" THEN 0 ELSE g.i + 1

\* mutant: every call passes the whole input_ids and no cache
ModelCallFull(g) == [ids |-> g.input_ids, past |-> NoCache]

\* lines 82-85: what the model is called with
ModelCall(g) ==
    IF g.past_key_values.none
    THEN [ids |-> g.input_ids, past |-> NoCache]
    ELSE [ids |-> <<Last(g.input_ids)>>, past |-> g.past_key_values]

\* lines 109-114: the frame at the yield, after next_token was sampled
AfterToken(g, next_token) ==
    [g EXCEPT !.state = "suspended",
              !.i = NextIndex(g),
              !.input_ids = Append(g.input_ids, next_token),
              !.generated_tokens = Append(g.generated_tokens, next_token),
              !.past_key_values =
                  ModelCache(ModelCall(g).ids, ModelCall(g).past),
              !.text = decode(Append(g.generated_tokens, next_token))]

(***************************************************************************)
(* answer_generation and the module-level call.                            *)
(***************************************************************************)
\* the defaults of sample_decode's parameters
default_temperature == 1
default_top_p == [num |-> 1, den |-> 1]
default_top_k == 25

\* answer_generation asks for max_length=256 decode steps; the model runs
\* it with the step bound instead
answer_max_length == MaxSteps

stop_words == {HumanMarker, AIMarker}

\* ids[-n:] of Python
LastN(ids, n) ==
    IF n = 0 THEN ids
    ELSE IF n > 0
         THEN SubSeq(ids, IF Len(ids) > n THEN Len(ids) - n + 1 ELSE 1,
                     Len(ids))
         ELSE SubSeq(ids, IF 0 - n > Len(ids) THEN Len(ids) + 1
                          ELSE 1 - n, Len(ids))

\* lines 151-156: temperature, top_p and top_k are not passed
GeneratorOfAnswer(a, input_ids) ==
    NewGenerator(input_ids, a.model, stop_words, answer_max_length,
                 default_temperature, default_top_p, default_top_k)

\* line 168: .replace("\n[|Human|]", "")
StripHuman(s) == Replace(s, <<NL>> \o HumanMarker)

(***************************************************************************)
(* The calls the model makes.                                              *)
(***************************************************************************)
Texts == {<<>>, <<"a", "b">>}

\* a short turn and a long one
Turns == { <<<<>>, <<>>>>, <<<<"a", "a">>, <<"b", "b", "b">>>> }

Histories == UNION {[1..n -> Turns] : n \in 0..MaxHistory}

\* one token less than the shortest prompt there is
MinBudget == token_count(prompt \o FormatText(<<>>)) - 1

Budgets == {0 - 1, 0} \cup (MinBudget..MaxBudget)

TopPs ==
    {[num |-> 0 - 1, den |-> 2], [num |-> 0, den |-> 1],
     [num |-> 1, den |-> 2], [num |-> 1, den |-> 1], [num |-> 3, den |-> 2]}

WellFormed(temperature, top_p, top_k) ==
    /\ temperature > 0
    /\ top_p.num > 0 /\ top_p.num <= top_p.den
    /\ top_k > 0

\* sampling configurations: the well-formed ones, and the malformed ones
\* that differ from a well-formed one in one parameter
Configs ==
    {c \in [temperature : {0 - 1, 0, 1, 2}, top_p : TopPs,
            top_k : {0 - 1, 0, 1, 2, default_top_k, V, V + 1}] :
        \/ /\ WellFormed(c.temperature, c.top_p, c.top_k)
           /\ \/ c.temperature = 1 /\ c.top_p = default_top_p
              \/ c.temperature = 2 /\ c.top_p # default_top_p /\ c.top_k = 1
        \/ /\ c.top_p = default_top_p /\ c.top_k = 2
           /\ c.temperature <= 0
        \/ /\ c.temperature = 1 /\ c.top_k = 2
           /\ ~(c.top_p.num > 0 /\ c.top_p.num <= c.top_p.den)
        \/ /\ c.temperature = 1 /\ c.top_p = default_top_p
           /\ c.top_k <= 0}

BaseArgs ==
    [text |-> <<>>, history |-> <<>>, max_length |-> 0,
     temperature |-> default_temperature, top_p |-> default_top_p,
     top_k |-> default_top_k, max_context_length_tokens |-> 0,
     model |-> "stub", input_ids |-> <<>>, stop_words |-> {}]

\* generate_prompt_with_history(text, history, tokenizer, max_length)
PromptCalls ==
    {[BaseArgs EXCEPT !.text = t, !.history = h, !.max_length = m] :
        t \in Texts, h \in Histories, m \in Budgets}

\* answer_generation(base_model, adapter_model, question, max_length,
\*                   temperature, top_p, top_k, max_context_length_tokens)
AnswerCalls ==
    {[BaseArgs EXCEPT !.text = t, !.max_length = m, !.temperature = c[1],
                      !.top_p = c[2], !.top_k = c[3],
                      !.max_context_length_tokens = n] :
        t \in Texts,
        m \in {MinBudget + 1},
        c \in {<<1, [num |-> 1, den |-> 1], default_top_k>>,
               <<2, [num |-> 1, den |-> 2], 1>>},
        n \in {3, 180}}

\* sample_decode(input_ids, model, tokenizer, stop_words, max_length,
\*               temperature, top_p, top_k)
DecodeCalls ==
    {[BaseArgs EXCEPT !.input_ids = ids, !.model = md[1],
                      !.max_length = md[2], !.stop_words = sw,
                      !.temperature = c.temperature, !.top_p = c.top_p,
                      !.top_k = c.top_k] :
        ids \in {tokenizer(prompt)},
        md \in ({"stub"} \X {0, MaxSteps}) \cup ({"dense"} \X {MaxDense}),
        sw \in {stop_words},
        c \in Configs}

(***************************************************************************)
(* The state machine.                                                      *)
(*   entry      the function the caller invoked                            *)
(*   args       its arguments                                              *)
(*   pc         "call", then "consume" while a generator is being          *)
(*              drained, then "done" or "raised"                           *)
(*   assembled  the result of generate_prompt_with_history                 *)
(*   gen        the frame of the sample_decode generator                   *)
(*   logits     the row the model returned last                            *)
(*   yielded    the texts the generator has yielded                        *)
(*   calls      the calls made to the model, in order                      *)
(*   ans        the value answer_generation returns and the value the      *)
(*              module prints                                              *)
(***************************************************************************)
NoAnswer == [returned |-> <<>>, printed |-> <<>>]

Init ==
    /\ \/ entry = "generate_prompt_with_history" /\ args \in PromptCalls
       \/ entry = "answer_generation" /\ args \in AnswerCalls
       \/ entry = "sample_decode" /\ args \in DecodeCalls
    /\ pc = "call"
    /\ assembled = None
    /\ gen = NoGenerator
    /\ logits = <<>>
    /\ yielded = <<>>
    /\ calls = <<>>
    /\ ans = NoAnswer

\* generate_prompt_with_history, called on its own
GeneratePrompt ==
    /\ entry = "generate_prompt_with_history" /\ pc = "call"
    /\ assembled' =
           generate_prompt_with_history(args.text, args.history,
                                        args.max_length)
    /\ pc' = "done"
    /\ UNCHANGED <<entry, args, gen, logits, yielded, calls, ans>>

\* answer_generation, lines 143-148, when the assembler returns None:
\* `prompt, inputs = inputs` raises TypeError
AnswerUnpackRaises ==
    /\ entry = "answer_generation" /\ pc = "call"
    /\ generate_prompt_with_history(args.text, <<>>, args.max_length).none
    /\ assembled' = None
    /\ pc' = "raised"
    /\ UNCHANGED <<entry, args, gen, logits, yielded, calls, ans>>

\* answer_generation, lines 143-156: the prompt is assembled from the
\* question and the empty history, its ids are cut to the last
\* max_context_length_tokens, and the generator is created
AnswerStartsDecode ==
    /\ entry = "answer_generation" /\ pc = "call"
    /\ LET r == generate_prompt_with_history(args.text, <<>>,
                                             args.max_length)
       IN /\ ~r.none
          /\ assembled' = r
          /\ gen' = GeneratorOfAnswer(args,
                        LastN(r.input_ids, args.max_context_length_tokens))
    /\ pc' = "consume"
    /\ UNCHANGED <<entry, args, logits, yielded, calls, ans>>

\* sample_decode called on its own: the call only creates the generator
DecodeStarts ==
    /\ entry = "sample_decode" /\ pc = "call"
    /\ gen' = NewGenerator(args.input_ids, args.model, args.stop_words,
                           args.max_length, args.temperature, args.top_p,
                           args.top_k)
    /\ pc' = "consume"
    /\ UNCHANGED <<entry, args, assembled, logits, yielded, calls, ans>>

Resumable == pc = "consume" /\ gen.state \in {"created", "suspended"}

\* next(gen), resumed behind the yield with a stop word in the text: return
GenStop ==
    /\ Resumable
    /\ StopHit(gen)
    /\ gen' = [gen EXCEPT !.state = "returned"]
    /\ UNCHANGED <<entry, args, pc, assembled, logits, yielded, calls, ans>>

\* next(gen) when range(max_length) is used up: return
GenExhaust ==
    /\ Resumable
    /\ ~StopHit(gen)
    /\ NextIndex(gen) >= gen.max_length
    /\ gen' = [gen EXCEPT !.state = "returned"]
    /\ UNCHANGED <<entry, args, pc, assembled, logits, yielded, calls, ans>>

\* next(gen) runs one iteration, lines 81-114, up to the yield
GenYield ==
    /\ Resumable
    /\ ~StopHit(gen)
    /\ NextIndex(gen) < gen.max_length
    /\ \E lg \in ModelOutputs(gen.model) :
         LET r == Sampler(lg, gen.temperature, gen.top_p, gen.top_k)
         IN /\ r.error = "none"
            /\ \E next_token \in r.tokens :
                 /\ gen' = AfterToken(gen, next_token)
                 /\ yielded' = Append(yielded, gen'.text)
            /\ logits' = lg
    /\ calls' = Append(calls, ModelCall(gen))
    /\ UNCHANGED <<entry, args, pc, assembled, ans>>

\* next(gen) runs into an exception of torch.topk, torch.min or
\* torch.multinomial, which leaves the generator and its consumer
GenRaise ==
    /\ Resumable
    /\ ~StopHit(gen)
    /\ NextIndex(gen) < gen.max_length
    /\ \E lg \in ModelOutputs(gen.model) :
         /\ Sampler(lg, gen.temperature, gen.top_p, gen.top_k).error
                # "none"
         /\ logits' = lg
    /\ gen' = [gen EXCEPT !.state = "raised", !.i = NextIndex(gen)]
    /\ calls' = Append(calls, ModelCall(gen))
    /\ pc' = "raised"
    /\ UNCHANGED <<entry, args, assembled, yielded, ans>>

\* the list of a directly called sample_decode is complete
DecodeDone ==
    /\ entry = "sample_decode" /\ pc = "consume" /\ gen.state = "returned"
    /\ pc' = "done"
    /\ UNCHANGED <<entry, args, assembled, gen, logits, yielded, calls, ans>>

\* lines 157-158 and 168: the last yielded text is returned, and the module
\* removes "\n[|Human|]" from it.  The list is never empty here: the
\* generator of answer_generation has max_length > 0, and its first
\* iteration either yields or raises.
AnswerReturns ==
    /\ entry = "answer_generation" /\ pc = "consume"
    /\ gen.state = "returned"
    /\ yielded # <<>>
    /\ ans' = [returned |-> Last(yielded),
               printed |-> StripHuman(Last(yielded))]
    /\ pc' = "done"
    /\ UNCHANGED <<entry, args, assembled, gen, logits, yielded, calls>>

Next ==
    \/ GeneratePrompt
    \/ AnswerUnpackRaises
    \/ AnswerStartsDecode
    \/ DecodeStarts
    \/ GenStop
    \/ GenExhaust
    \/ GenYield
    \/ GenRaise
    \/ DecodeDone
    \/ AnswerReturns

Spec == Init /\ [][Next]_vars

(***************************************************************************)
(* Properties.                                                             *)
(***************************************************************************)
Assembling == entry \in {"generate_prompt_with_history", "answer_generation"}

RECURSIVE Concat(_)
Concat(ss) == IF ss = <<>> THEN <<>> ELSE Head(ss) \o Concat(Tail(ss))

\* the n most recent turns of h, formatted, oldest first
RecentTurns(h, n) ==
    Concat([i \in 1..n |-> FormatTurn(h[Len(h) - n + i])])

\* the prompt that holds the n most recent turns and the new utterance
PromptOf(text, h, n) == prompt \o RecentTurns(h, n) \o FormatText(text)

RECURSIVE Occurrences(_, _, _)
Occurrences(s, t, i) ==
    IF i > Len(s) THEN 0
    ELSE (IF MatchAt(s, t, i) THEN 1 ELSE 0) + Occurrences(s, t, i + 1)

\* the number of history turns in an assembled prompt: its "\n[|Human|]"
\* openings, less the one of the preamble and the one of the new utterance
IncludedTurns(r) ==
    IF r.none THEN 0
    ELSE Occurrences(r.prompt, <<NL>> \o HumanMarker, 1) - 2

StopIn(t) == \E x \in gen.stop_words : Contains(t, x)

\* C1: whenever generate_prompt_with_history returns a prompt, the token
\* count of the returned prompt string is at most max_length.
C1_BudgetInvariant ==
    (Assembling /\ ~assembled.none)
        => /\ token_count(assembled.prompt) <= args.max_length
           /\ assembled.input_ids = tokenizer(assembled.prompt)

\* a prompt with a history turn in it that uses the budget to the last token
C1_Witness ==
    /\ entry = "generate_prompt_with_history" /\ ~assembled.none
    /\ IncludedTurns(assembled) >= 1
    /\ token_count(assembled.prompt) = args.max_length

\* the least k, counted from the most recent turn, whose tentative prepend
\* takes the prompt over max_length; Len(h) + 1 when every turn fits
FirstNotFitting(text, h, max_length) ==
    SetMin({k \in 1..(Len(h) + 1) :
               \/ k = Len(h) + 1
               \/ token_count(PromptOf(text, h, k)) > max_length})

\* C2: if turn k, counted from the most recent, is the first whose
\* tentative prepend exceeds max_length, the returned prompt holds exactly
\* the k-1 most recent turns, oldest first, and then the new utterance; no
\* older turn is in it.
C2_ShortCircuit ==
    (entry = "generate_prompt_with_history" /\ ~assembled.none)
        => LET k == FirstNotFitting(args.text, args.history, args.max_length)
           IN /\ assembled.prompt =
                     PromptOf(args.text, args.history, k - 1)
              /\ IncludedTurns(assembled) = k - 1

\* the second most recent turn does not fit, the turn before it alone would
\* fit, and the prompt holds the most recent turn only
C2_Witness ==
    /\ entry = "generate_prompt_with_history" /\ ~assembled.none
    /\ Len(args.history) = 3
    /\ FirstNotFitting(args.text, args.history, args.max_length) = 2
    /\ token_count(prompt \o FormatTurn(args.history[1])
                       \o FormatTurn(args.history[3])
                       \o FormatText(args.text)) <= args.max_length
    /\ IncludedTurns(assembled) = 1

\* C3: assembly fails exactly when preamble + new utterance alone exceeds
\* max_length; answer_generation then ends in an exception without having
\* called the model; a prompt that is returned ends with the whole
\* utterance.
C3_FailureExactlyWhenTooLong ==
    (Assembling /\ pc # "call")
        => /\ assembled.none <=>
                  token_count(prompt \o FormatText(args.text))
                      > args.max_length
           /\ (entry = "answer_generation" /\ assembled.none)
                  => pc = "raised" /\ calls = <<>> /\ gen.state = "absent"
           /\ ~assembled.none
                  => IsSuffix(FormatText(args.text), assembled.prompt)

\* answer_generation has failed on a question that is too long by itself
C3_Witness ==
    /\ entry = "answer_generation" /\ pc = "raised" /\ assembled.none
    /\ args.max_length >= MinBudget

\* C4: the yielded text that first holds a stop word is the last one
\* yielded: it is element n+1 when it is yielded at step n, the model has
\* been called n+1 times, and the next resumption can only return.
C4_StopEndsSequence ==
    \A j \in 1..Len(yielded) :
        StopIn(yielded[j])
            => /\ j = Len(yielded)
               /\ gen.i + 1 = j
               /\ Len(calls) = j
               /\ gen.state \in {"suspended", "returned"}
               /\ gen.state = "suspended"
                      => /\ ENABLED GenStop
                         /\ ~ENABLED GenYield
                         /\ ~ENABLED GenRaise

\* a decode that returned on a stop word before its steps were used up
C4_Witness ==
    /\ gen.state = "returned"
    /\ Len(yielded) >= 2 /\ Len(yielded) < gen.max_length
    /\ StopIn(Last(yielded))

\* C5: when the decode ends on a stop marker, the answer has no stop
\* marker in it.
C5_AnswerWithoutMarker ==
    (entry = "answer_generation" /\ pc = "done" /\ StopIn(Last(yielded)))
        => /\ ~Contains(ans.printed, HumanMarker)
           /\ ~Contains(ans.printed, AIMarker)

\* C6: a decode with a malformed sampling configuration samples no token
\* and yields nothing.
C6_MalformedRejected ==
    (entry = "sample_decode" /\ pc # "call"
         /\ ~WellFormed(gen.temperature, gen.top_p, gen.top_k))
        => /\ yielded = <<>>
           /\ gen.generated_tokens = <<>>

\* C7: with top_p = 1 and top_k >= V in a well-formed configuration, a
\* step raises nothing, the filters zero no mass, and every token of
\* nonzero softmax probability can be drawn.
C7_FiltersNoOp ==
    (/\ logits # <<>>
     /\ WellFormed(gen.temperature, gen.top_p, gen.top_k)
     /\ gen.top_p.num = gen.top_p.den
     /\ gen.top_k >= V)
        => LET r == Sampler(logits, gen.temperature, gen.top_p, gen.top_k)
           IN /\ r.error = "none"
              /\ r.kept = r.total
              /\ r.tokens = {i - 1 : i \in {j \in 1..V : logits[j].fin}}

\* C8: a larger max_length never gives fewer history turns, and assembly
\* succeeds with it whenever it succeeds with the smaller one.
C8_Monotonic ==
    (entry = "generate_prompt_with_history" /\ pc = "done")
        => \A m2 \in Budgets :
              m2 >= args.max_length
                  => LET r2 == generate_prompt_with_history(
                                   args.text, args.history, m2)
                     IN /\ IncludedTurns(r2) >= IncludedTurns(assembled)
                        /\ ~assembled.none => ~r2.none

\* a larger budget that does give more turns
C8_Witness ==
    /\ entry = "generate_prompt_with_history" /\ pc = "done"
    /\ IncludedTurns(assembled) >= 1
    /\ \E m2 \in Budgets :
          /\ m2 > args.max_length
          /\ IncludedTurns(generate_prompt_with_history(
                 args.text, args.history, m2)) > IncludedTurns(assembled)

\* the token ids the decode started from
InitialIds ==
    IF entry = "sample_decode" THEN args.input_ids
    ELSE LastN(assembled.input_ids, args.max_context_length_tokens)

\* C9: the first model call gets the whole initial ids and no cache; every
\* later call gets the one token sampled in the step before and the cache
\* the model returned in the step before.
C9_IncrementalQueries ==
    \A j \in 1..Len(calls) :
        IF j = 1
        THEN calls[j] = [ids |-> InitialIds, past |-> NoCache]
        ELSE /\ calls[j].ids = <<gen.generated_tokens[j - 1]>>
             /\ calls[j].past =
                    ModelCache(calls[j - 1].ids, calls[j - 1].past)

\* a decode that has called the model three times
C9_Witness == Len(calls) >= 3 /\ Len(InitialIds) >= 2

\* C10: the decode steps of answer_generation sample with the temperature,
\* top_p and top_k its caller passed.
C10_CallerConfigUsed ==
    (entry = "answer_generation" /\ calls # <<>>)
        => /\ gen.temperature = args.temperature
           /\ gen.top_p = args.top_p
           /\ gen.top_k = args.top_k

====
